---- MODULE Spec2Model ----
(***************************************************************************)
(* Model of src/components/demos/smash-particles.tsx: the particle pool of *)
(* ParticleBursts (spawnBurst, the useFrame integrator, the camera shake)  *)
(* and the idle flag of SmashParticles (useKeyStroke, useDebouncedFlag).   *)
(*                                                                         *)
(* Numbers are fixed point.  Lengths and velocities are in 1/1000 of a     *)
(* world unit (per second), times in milliseconds, alpha, sizes, the shake *)
(* magnitude and every Math.random() draw in 1/1000.  Products are rounded *)
(* to the nearest unit, as a float operation rounds to the nearest float.  *)
(***************************************************************************)
EXTENDS Integers, Sequences, FiniteSets, TLC

\* ------------------------------------------------------------ constants
\* Pool size and burst size, scaled down from 5000 and 500.
PARTICLE_CAPACITY == 3
BURST_PARTICLE_COUNT == 2
\* At most this many spawn passes between two frames (each pass adds an
\* impulse to the particles still near the origin).
MaxBursts == 2
\* The clock of frame time since the last burst stops counting here (ms).
ShakeClockMax == 200
\* The ms after a keydown that the debounce clock is followed for.
SinceMax == 2600
\* useDebouncedFlag(stroke, { debounceTime: 2_000, ignoreInitial: true })
debounceTime == 2000
ignoreInitial == TRUE

SPEED_MIN == 2200
SPEED_MAX == 7000
LIFETIME_MIN == 800
LIFETIME_MAX == 1600
\* VELOCITY_DAMPING = 0.98, in 1/100.
VELOCITY_DAMPING == 98
\* GRAVITY = -8 world units / s^2 = -8 (1/1000 unit / s) per millisecond.
GRAVITY == -8
IMPULSE_RADIUS == 200
IMPULSE_STRENGTH == 5000
\* SHAKE_DECAY_PER_SEC = 1: 1/1000 of magnitude per millisecond.
SHAKE_DECAY_PER_SEC == 1
\* The magnitude a burst raises the shake to (0.12).
SHAKE_ON_BURST == 120
\* The fill value of the positions array (1e6 world units).
SENTINEL == 1000000000
\* One world unit, one second, alpha 1, a random draw's upper end.
ONE == 1000
\* Sub-steps per length unit inside the impulse (distances to 1e-5).
FINE == 100
\* Math.max(0.0001, dist) in 1/FINE length units.
DIST_CLAMP == 10
\* age < 0.06 (the pop phase of the size easing).
POP_AGE == 60
\* The size range 6 + random * 10.
SIZE_MIN == 6000
SIZE_SPAN == 10
\* The jitter factor 0.02 of the spawn position, in 1/1000 length units.
JITTER == 20

ModifierKeys == {"Alt", "Control", "Meta", "Shift"}
\* The keys the model presses: one ordinary key, one modifier.
Keys == {"a", "Shift"}
\* The frame deltas (ms) the render loop hands to useFrame.
DeltaVals == {600, 2000}
\* The frame deltas of the camera shake's specification, where one burst's
\* shake lasts more than one frame.
ShakeDeltas == {100, 2000}
\* The steps of wall-clock time, in ms, for the debounce.
TickVals == {150, 400}

Idx == 0 .. (PARTICLE_CAPACITY - 1)

\* ------------------------------------------------------------ arithmetic
Abs(a) == IF a < 0 THEN -a ELSE a
Max(a, b) == IF a >= b THEN a ELSE b
Min(a, b) == IF a <= b THEN a ELSE b
\* a / b rounded to the nearest integer (b > 0), halves away from zero.
RDiv(a, b) == IF a >= 0 THEN (2 * a + b) \div (2 * b) ELSE -((2 * (-a) + b) \div (2 * b))

RECURSIVE SqrtBetween(_, _, _)
SqrtBetween(n, lo, hi) ==
  IF lo >= hi THEN lo
  ELSE CHOOSE s \in { IF mid * mid <= n THEN SqrtBetween(n, mid, hi)
                                        ELSE SqrtBetween(n, lo, mid - 1) :
                      mid \in {(lo + hi + 1) \div 2} } : TRUE
\* Math.sqrt on a non-negative integer, rounded down.
Sqrt(n) == SqrtBetween(n, 0, 46340)

\* Math.cos / Math.sin at a multiple q of a quarter turn, in 1/1000.
Cos(q) == CASE q % 4 = 0 -> ONE [] q % 4 = 1 -> 0 [] q % 4 = 2 -> -ONE [] OTHER -> 0
Sin(q) == CASE q % 4 = 0 -> 0 [] q % 4 = 1 -> ONE [] q % 4 = 2 -> 0 [] OTHER -> -ONE
\* Math.acos at -1, 0 and 1 (in 1/1000), in quarter turns.
Acos(c) == CASE c = -ONE -> 2 [] c = 0 -> 1 [] OTHER -> 0

\* min + Math.random() * (max - min)
randomBetween(min, max, r) == min + RDiv(r * (max - min), ONE)

\* The Math.random() results of one slot's reinitialisation, in call order:
\* x, y, theta, phi, speed, lifetime, size.  Each is in 0 .. 999; theta is a
\* multiple of 250 and phi's draw 0 or 500, where Cos, Sin and Acos are exact.
RandomDraws ==
  { [x |-> 500, y |-> 500, theta |-> 250, phi |-> 0,   speed |-> 0,   life |-> 500, size |-> 0],
    [x |-> 999, y |-> 0,   theta |-> 0,   phi |-> 500, speed |-> 999, life |-> 999, size |-> 999] }
\* The draws of the camera shake's specification: one short-lived particle.
ShakeDraws ==
  { [x |-> 500, y |-> 500, theta |-> 250, phi |-> 0, speed |-> 0, life |-> 0, size |-> 0] }
\* The three Math.random() results of one shaken frame (x, y, z offsets).
CameraDraws == { <<0, 0, 0>>, <<999, 999, 999>>, <<500, 0, 999>> }

\* ------------------------------------------------------------ state
VARIABLES
  positions,        \* Float32Array(PARTICLE_CAPACITY * 3), as triples
  velocities,       \* Float32Array(PARTICLE_CAPACITY * 3), as triples
  ages,             \* seconds since the slot's last spawn
  lifetimes,
  sizes,
  alphas,
  needsUpdate,      \* the needsUpdate flag of the position, aSize, aAlpha attributes
  baseCamPos,       \* baseCamPosRef.current (<<>> is null)
  cameraPosition,   \* camera.position
  shakeMagnitude,   \* shakeMagnitudeRef.current
  isInitialRef,     \* ParticleBursts' isInitialRef.current
  stroke,           \* useKeyStroke's state, the trigger prop
  bursts,           \* spawn passes since the last frame
  rendering,        \* inside a frame of the render loop: callbacks done, draw to come
  delta,            \* the delta of the frame being rendered (0 outside a frame)
  burstShake,       \* the shake magnitude the last spawn pass left
  sinceBurst,       \* frame time since the last spawn pass, up to ShakeClockMax
  flag,             \* useDebouncedFlag's state
  flagInitialRef,   \* useDebouncedFlag's isInitialRef.current
  debounceTimer,    \* ms until the debounced setFlag(false) is due (-1: none pending)
  sinceTrigger,     \* ms since the last keydown, up to SinceMax (-1: no keydown yet)
  probe,            \* a position handed to the impulse, and what it added there
  uploaded          \* the render surface's copies of position, aSize, aAlpha

poolVars == <<positions, velocities, ages, lifetimes, sizes, alphas>>
cameraVars == <<baseCamPos, cameraPosition, shakeMagnitude>>
vars == <<positions, velocities, ages, lifetimes, sizes, alphas, needsUpdate,
          baseCamPos, cameraPosition, shakeMagnitude, isInitialRef, stroke,
          bursts, rendering, delta, burstShake, sinceBurst,
          flag, flagInitialRef, debounceTimer, sinceTrigger, probe, uploaded>>
\* The idle label's state and the probe: no part of ParticleBursts.
flagVars == <<flag, flagInitialRef, debounceTimer, sinceTrigger>>
burstVars == <<poolVars, needsUpdate, cameraVars, isInitialRef, bursts, rendering,
               delta, burstShake, sinceBurst, uploaded>>

SentinelPos == <<SENTINEL, SENTINEL, SENTINEL>>
\* <Canvas camera={{ position: [0, 0, 5] }}>
CameraStart == <<0, 0, 5 * ONE>>
AllDirty == [position |-> TRUE, aSize |-> TRUE, aAlpha |-> TRUE]
NoneDirty == [position |-> FALSE, aSize |-> FALSE, aAlpha |-> FALSE]

\* The pool as one record, for the passes over it (let spawned = 0).
Pool == [positions |-> positions, velocities |-> velocities, ages |-> ages,
         lifetimes |-> lifetimes, sizes |-> sizes, alphas |-> alphas, spawned |-> 0]

Alive(p, i) == p.ages[i] < p.lifetimes[i]
Dead(p, i) == p.ages[i] >= p.lifetimes[i]

NoProbe == [at |-> <<0, 0, 0>>, added |-> <<>>]

\* ParticleBursts before its first effect run.
InitBursts ==
  /\ positions = [i \in Idx |-> SentinelPos]
  /\ velocities = [i \in Idx |-> <<0, 0, 0>>]
  /\ ages = [i \in Idx |-> i * ONE]
  /\ lifetimes = [i \in Idx |-> 0]
  /\ sizes = [i \in Idx |-> 0]
  /\ alphas = [i \in Idx |-> 0]
  /\ needsUpdate = NoneDirty
  /\ baseCamPos = <<>>
  /\ cameraPosition = CameraStart
  /\ shakeMagnitude = 0
  /\ isInitialRef = TRUE
  /\ stroke = [stroke |-> ""]
  /\ bursts = 0
  /\ rendering = FALSE
  /\ delta = 0
  /\ burstShake = 0
  /\ sinceBurst = 0
  /\ uploaded = [position |-> positions, aSize |-> sizes, aAlpha |-> alphas]

\* useState(false), useRef(true), no debounced call pending.
InitFlag ==
  /\ flag = FALSE
  /\ flagInitialRef = TRUE
  /\ debounceTimer = -1
  /\ sinceTrigger = -1

Init == InitBursts /\ InitFlag /\ probe = NoProbe

\* ------------------------------------------------------------ spawnBurst
\* Mutant of Ignored: the modifier keys are not filtered.
IgnoredNoModifiers(trigger) == "stroke" \notin DOMAIN trigger

\* The guard at the top of spawnBurst: !trigger, or a modifier key.
Ignored(trigger) == \/ "stroke" \notin DOMAIN trigger
                    \/ trigger.stroke \in ModifierKeys

\* The velocity the shockwave adds to a particle at <<x, y, z>>, whose
\* coordinates are in 1/sub of a length unit (sub divides FINE): nothing
\* unless dist2 < r2, else the position over the clamped distance, times
\* IMPULSE_STRENGTH * (1 - dist / IMPULSE_RADIUS).
Impulse(x, y, z, sub) ==
  LET dist2 == x * x + y * y + z * z
      r2 == (IMPULSE_RADIUS * sub) * (IMPULSE_RADIUS * sub)
      k == FINE \div sub
      dist == Max(DIST_CLAMP, Sqrt(dist2 * k * k))
      falloff == ONE - RDiv(dist * ONE, IMPULSE_RADIUS * FINE)
      strength == RDiv(IMPULSE_STRENGTH * falloff, ONE)
      nx == RDiv(x * k * ONE, dist)
      ny == RDiv(y * k * ONE, dist)
      nz == RDiv(z * k * ONE, dist)
  IN IF dist2 < r2
     THEN <<RDiv(nx * strength, ONE), RDiv(ny * strength, ONE), RDiv(nz * strength, ONE)>>
     ELSE <<0, 0, 0>>

\* Mutant of SpawnPosition: the jitter is not centred on the origin.
SpawnPositionOffCentre(d) == <<RDiv(d.x * JITTER, ONE), RDiv(d.y * JITTER, ONE), 0>>

\* The jittered spawn position: (Math.random() - 0.5) * 0.02 on x and y, 0 on z.
SpawnPosition(d) ==
  <<RDiv((d.x - ONE \div 2) * JITTER, ONE), RDiv((d.y - ONE \div 2) * JITTER, ONE), 0>>

\* The direction sampled on the sphere: theta = random * 2 pi (in quarter
\* turns), phi = acos(2 * random - 1).
SpawnDirection(d) ==
  LET theta == (d.theta * 4) \div ONE
      phi == Acos(2 * d.phi - ONE)
  IN <<RDiv(Sin(phi) * Cos(theta), ONE), RDiv(Sin(phi) * Sin(theta), ONE), Cos(phi)>>

\* Mutant of SpawnSpeed: max taken for the span max - min.
SpawnSpeedNoMin(d) == SPEED_MIN + RDiv(d.speed * SPEED_MAX, ONE)

SpawnSpeed(d) == randomBetween(SPEED_MIN, SPEED_MAX, d.speed)

SpawnVelocity(d) ==
  LET dir == SpawnDirection(d)
      speed == SpawnSpeed(d)
  IN <<RDiv(dir[1] * speed, ONE), RDiv(dir[2] * speed, ONE), RDiv(dir[3] * speed, ONE)>>

SpawnLifetime(d) == LIFETIME_MIN + RDiv(d.life * (LIFETIME_MAX - LIFETIME_MIN), ONE)

SpawnSize(d) == SIZE_MIN + d.size * SIZE_SPAN

\* The first branch of the loop body: slot i is reinitialised from the draws d.
Reinit(p, i, d) ==
  [positions |-> [p.positions EXCEPT ![i] = SpawnPosition(d)],
   velocities |-> [p.velocities EXCEPT ![i] = SpawnVelocity(d)],
   ages |-> [p.ages EXCEPT ![i] = 0],
   lifetimes |-> [p.lifetimes EXCEPT ![i] = SpawnLifetime(d)],
   sizes |-> [p.sizes EXCEPT ![i] = SpawnSize(d)],
   alphas |-> [p.alphas EXCEPT ![i] = ONE],
   spawned |-> p.spawned + 1]

\* The second branch of the loop body: the shockwave on slot i.
ApplyImpulse(p, i) ==
  LET pos == p.positions[i]
      add == Impulse(pos[1], pos[2], pos[3], 1)
      v == p.velocities[i]
  IN [p EXCEPT !.velocities[i] = <<v[1] + add[1], v[2] + add[2], v[3] + add[3]>>]

\* Mutant of Reusable: the slot is not tested for being dead.
ReusableAlive(p, i) == p.spawned < BURST_PARTICLE_COUNT

\* Whether the loop reinitialises slot i.
Reusable(p, i) == p.spawned < BURST_PARTICLE_COUNT /\ p.ages[i] >= p.lifetimes[i]

\* One iteration of the loop over the slots; draws[k] serves the k-th
\* reinitialised slot.
SpawnSlot(p, i, draws) ==
  LET q == IF Reusable(p, i) THEN Reinit(p, i, draws[p.spawned + 1]) ELSE p
  IN IF q.ages[i] < q.lifetimes[i] THEN ApplyImpulse(q, i) ELSE q

\* Mutant of SpawnScan: the slots are scanned from the highest index down.
RECURSIVE SpawnScanDown(_, _, _)
SpawnScanDown(p, i, draws) ==
  IF i >= PARTICLE_CAPACITY THEN p
  ELSE CHOOSE r \in { SpawnScanDown(q, i + 1, draws) :
                      q \in {SpawnSlot(p, PARTICLE_CAPACITY - 1 - i, draws)} } : TRUE

RECURSIVE SpawnScan(_, _, _)
SpawnScan(p, i, draws) ==
  IF i >= PARTICLE_CAPACITY THEN p
  ELSE CHOOSE r \in { SpawnScan(q, i + 1, draws) : q \in {SpawnSlot(p, i, draws)} } : TRUE

\* geometryRef.current is set when the component is committed, before any
\* effect or frame callback runs.
GeometryAttached == TRUE

\* Mutant of ShakeAfterBurst: each burst adds to the shake.
ShakeAddedPerBurst(mag) == mag + SHAKE_ON_BURST

\* Math.max(shakeMagnitudeRef.current, 0.12)
ShakeAfterBurst(mag) == Max(mag, SHAKE_ON_BURST)

\* spawnBurst() for the trigger value `trigger`.
spawnBurst(trigger, draws) ==
  IF Ignored(trigger)
  THEN UNCHANGED <<poolVars, needsUpdate, shakeMagnitude, bursts, burstShake, sinceBurst>>
  ELSE \E p \in {SpawnScan(Pool, 0, draws)} :
         /\ positions' = p.positions
         /\ velocities' = p.velocities
         /\ ages' = p.ages
         /\ lifetimes' = p.lifetimes
         /\ sizes' = p.sizes
         /\ alphas' = p.alphas
         /\ needsUpdate' = IF GeometryAttached THEN AllDirty ELSE needsUpdate
         /\ shakeMagnitude' = ShakeAfterBurst(shakeMagnitude)
         /\ bursts < MaxBursts
         /\ bursts' = bursts + 1
         /\ burstShake' = ShakeAfterBurst(shakeMagnitude)
         /\ sinceBurst' = 0

\* Mutant of TriggerEffect: the first run is not skipped.
TriggerEffectOnFirstRun(trigger, draws) ==
  /\ spawnBurst(trigger, draws)
  /\ isInitialRef' = FALSE

\* The effect on [trigger]: its first run only clears isInitialRef.
TriggerEffect(trigger, draws) ==
  IF isInitialRef
  THEN /\ isInitialRef' = FALSE
       /\ UNCHANGED <<poolVars, needsUpdate, shakeMagnitude, bursts, burstShake, sinceBurst>>
  ELSE /\ spawnBurst(trigger, draws)
       /\ UNCHANGED isInitialRef

\* The effect's first run, when ParticleBursts mounts, with whatever stroke
\* is current.
Mount ==
  /\ ~rendering
  /\ isInitialRef
  /\ \E draws \in [1 .. BURST_PARTICLE_COUNT -> ShakeDraws] : TriggerEffect(stroke, draws)
  /\ UNCHANGED <<stroke, baseCamPos, cameraPosition, rendering, delta, flagVars, probe, uploaded>>

\* A keydown: handleKeyStroke sets the stroke; once ParticleBursts is mounted
\* (isInitialRef is cleared by then) the new trigger value runs the effect.
\* D is the set the pass's Math.random() results are drawn from.
KeyDown(key, D) ==
  /\ ~rendering
  /\ stroke' = [stroke |-> key]
  /\ IF isInitialRef
     THEN UNCHANGED <<poolVars, needsUpdate, shakeMagnitude, bursts, burstShake,
                      sinceBurst, isInitialRef>>
     ELSE \E draws \in [1 .. BURST_PARTICLE_COUNT -> D] :
            TriggerEffect([stroke |-> key], draws)
  /\ UNCHANGED <<baseCamPos, cameraPosition, rendering, delta, flagVars, probe, uploaded>>

\* ------------------------------------------------------------ useFrame
\* t = Math.min(1, ages[i] / Math.max(0.0001, life)), in 1/1000; the ages
\* are taken in 1/10 ms, where 0.0001 s is 1.
LifeFraction(age, life) == Min(ONE, RDiv(age * 10 * ONE, Max(1, life * 10)))

\* alphas[i] = oneMinusT * oneMinusT
FadeAlpha(age, life) ==
  LET oneMinusT == ONE - LifeFraction(age, life)
  IN RDiv(oneMinusT * oneMinusT, ONE)

\* The size easing: * 1.04 while age < 0.06 (the age before this frame),
\* * 0.999 afterwards.
EaseSize(size, age) ==
  IF age < POP_AGE THEN RDiv(size * 104, 100) ELSE RDiv(size * 999, 1000)

\* Mutant of IntegrateVelocity: gravity is added before the damping.
IntegrateVelocityGravityFirst(v, dt) ==
  <<RDiv(v[1] * VELOCITY_DAMPING, 100),
    RDiv((v[2] + GRAVITY * dt) * VELOCITY_DAMPING, 100),
    RDiv(v[3] * VELOCITY_DAMPING, 100)>>

\* The velocity integration: damping on x and z, damping plus gravity on y.
IntegrateVelocity(v, dt) ==
  <<RDiv(v[1] * VELOCITY_DAMPING, 100),
    RDiv(v[2] * VELOCITY_DAMPING, 100) + GRAVITY * dt,
    RDiv(v[3] * VELOCITY_DAMPING, 100)>>

\* positions += velocities * dt
IntegratePosition(pos, v, dt) ==
  <<pos[1] + RDiv(v[1] * dt, ONE), pos[2] + RDiv(v[2] * dt, ONE),
    pos[3] + RDiv(v[3] * dt, ONE)>>

\* The test after the update: the slot died in this frame.
Retired(age, life) == age >= life

\* Mutant of FrameSlot: a slot that dies keeps its size.
FrameSlotKeepsSize(p, i, dt) ==
  LET life == p.lifetimes[i]
      age == p.ages[i]
      v == IntegrateVelocity(p.velocities[i], dt)
      newAge == age + dt
      died == Retired(newAge, life)
  IN IF age < life
     THEN [position |-> IF died THEN SentinelPos
                        ELSE IntegratePosition(p.positions[i], v, dt),
           velocity |-> v,
           age |-> newAge,
           size |-> EaseSize(p.sizes[i], age),
           alpha |-> IF died THEN 0 ELSE FadeAlpha(newAge, life)]
     ELSE [position |-> p.positions[i], velocity |-> p.velocities[i], age |-> age,
           size |-> p.sizes[i], alpha |-> p.alphas[i]]

\* Mutant of FrameSlot: the age advances outside the isAlive test.
FrameSlotAgesDead(p, i, dt) ==
  LET life == p.lifetimes[i]
      age == p.ages[i]
      v == IntegrateVelocity(p.velocities[i], dt)
      newAge == age + dt
      died == Retired(newAge, life)
  IN IF age < life
     THEN [position |-> IF died THEN SentinelPos
                        ELSE IntegratePosition(p.positions[i], v, dt),
           velocity |-> v,
           age |-> newAge,
           size |-> IF died THEN 0 ELSE EaseSize(p.sizes[i], age),
           alpha |-> IF died THEN 0 ELSE FadeAlpha(newAge, life)]
     ELSE [position |-> p.positions[i], velocity |-> p.velocities[i], age |-> newAge,
           size |-> p.sizes[i], alpha |-> p.alphas[i]]

\* The loop body of the frame callback for slot i: the slot's new
\* attributes, unchanged if it is not alive.
FrameSlot(p, i, dt) ==
  LET life == p.lifetimes[i]
      age == p.ages[i]
      v == IntegrateVelocity(p.velocities[i], dt)
      newAge == age + dt
      died == Retired(newAge, life)
  IN IF age < life
     THEN [position |-> IF died THEN SentinelPos
                        ELSE IntegratePosition(p.positions[i], v, dt),
           velocity |-> v,
           age |-> newAge,
           size |-> IF died THEN 0 ELSE EaseSize(p.sizes[i], age),
           alpha |-> IF died THEN 0 ELSE FadeAlpha(newAge, life)]
     ELSE [position |-> p.positions[i], velocity |-> p.velocities[i], age |-> age,
           size |-> p.sizes[i], alpha |-> p.alphas[i]]

\* let anyAlive: some slot was alive when the loop reached it.
AnyAlive(p) == \E i \in Idx : p.ages[i] < p.lifetimes[i]

\* Mutant of FrameDirty: anyAlive is taken from the ages the frame leaves.
FrameDirtyStillAlive(p, flags) ==
  IF (\E i \in Idx : ages'[i] < p.lifetimes[i]) /\ GeometryAttached THEN AllDirty ELSE flags

\* Mutant of FrameDirty: the flags are set without the anyAlive test.
FrameDirtyAlways(p, flags) == AllDirty

\* The flags after the frame's needsUpdate block.
FrameDirty(p, flags) == IF AnyAlive(p) /\ GeometryAttached THEN AllDirty ELSE flags

\* (Math.random() - 0.5) * 2 * mag * scale / 10
ShakeOffset(r, mag, scale) == RDiv((r - ONE \div 2) * 2 * mag * scale, 10 * ONE)

\* camera.position.set(...) of a shaken frame.
ShakenPosition(base, mag, r) ==
  <<base[1] + ShakeOffset(r[1], mag, 10), base[2] + ShakeOffset(r[2], mag, 8),
    base[3] + ShakeOffset(r[3], mag, 3)>>

\* Mutant of DecayShake: the shake decays by a factor instead of an amount.
DecayShakeByFactor(mag, dt) == Max(0, RDiv(mag * (ONE - SHAKE_DECAY_PER_SEC * dt), ONE))

\* Mutant of DecayShake: the shake decays at half the rate.
DecayShakeSlow(mag, dt) == Max(0, mag - (SHAKE_DECAY_PER_SEC * dt) \div 2)

\* Math.max(0, shakeMagnitudeRef.current - SHAKE_DECAY_PER_SEC * dt)
DecayShake(mag, dt) == Max(0, mag - SHAKE_DECAY_PER_SEC * dt)

\* The camera shake block of the frame callback.
CameraShake(dt, r) ==
  LET base == IF baseCamPos = <<>> THEN cameraPosition ELSE baseCamPos
      mag == shakeMagnitude
      left == DecayShake(mag, dt)
  IN /\ baseCamPos' = base
     /\ IF mag > 0
        THEN /\ shakeMagnitude' = left
             /\ cameraPosition' = IF left = 0 THEN base ELSE ShakenPosition(base, mag, r)
        ELSE UNCHANGED <<shakeMagnitude, cameraPosition>>

\* The useFrame callback with the frame's delta dt.
Frame(dt) ==
  /\ ~rendering
  /\ rendering' = TRUE
  /\ delta' = dt
  /\ positions' = [i \in Idx |-> FrameSlot(Pool, i, dt).position]
  /\ velocities' = [i \in Idx |-> FrameSlot(Pool, i, dt).velocity]
  /\ ages' = [i \in Idx |-> FrameSlot(Pool, i, dt).age]
  /\ sizes' = [i \in Idx |-> FrameSlot(Pool, i, dt).size]
  /\ alphas' = [i \in Idx |-> FrameSlot(Pool, i, dt).alpha]
  /\ needsUpdate' = FrameDirty(Pool, needsUpdate)
  /\ \E r \in (IF shakeMagnitude > 0 THEN CameraDraws ELSE {<<0, 0, 0>>}) : CameraShake(dt, r)
  /\ bursts' = 0
  /\ sinceBurst' = Min(sinceBurst + dt, ShakeClockMax)
  /\ UNCHANGED <<lifetimes, isInitialRef, stroke, burstShake, flagVars, probe, uploaded>>

\* What the render surface holds of an attribute after a draw: the array as
\* it is now if the attribute's needsUpdate is set, its old copy otherwise.
Upload(dirty, array, copy) == IF dirty THEN array ELSE copy

\* The render surface's draw, which ends the frame the callback ran in: each
\* attribute whose needsUpdate is set is uploaded and the flag is cleared.
Draw ==
  /\ rendering
  /\ rendering' = FALSE
  /\ delta' = 0
  /\ uploaded' = [position |-> Upload(needsUpdate.position, positions, uploaded.position),
                  aSize |-> Upload(needsUpdate.aSize, sizes, uploaded.aSize),
                  aAlpha |-> Upload(needsUpdate.aAlpha, alphas, uploaded.aAlpha)]
  /\ needsUpdate' = NoneDirty
  /\ UNCHANGED <<poolVars, cameraVars, isInitialRef, stroke, bursts, burstShake, sinceBurst,
                 flagVars, probe>>

Next ==
  \/ Mount
  \/ \E key \in Keys : KeyDown(key, RandomDraws)
  \/ \E dt \in DeltaVals : Frame(dt)
  \/ Draw

Spec == Init /\ [][Next]_vars

\* The same program under short frames, for the camera shake.
NextShake ==
  \/ Mount
  \/ \E key \in Keys : KeyDown(key, ShakeDraws)
  \/ \E dt \in ShakeDeltas : Frame(dt)
  \/ Draw

SpecShake == Init /\ [][NextShake]_vars

\* The same under a render loop that keeps running: every frame request is
\* served (the callbacks run, with a delta > 0) and every frame is drawn.
SpecLive ==
  /\ Init
  /\ [][NextShake]_vars
  /\ WF_vars(\E dt \in ShakeDeltas : Frame(dt))
  /\ WF_vars(Draw)

\* ------------------------------------------------------------ the impulse alone
\* The coordinates of the probed positions, in 1/FINE of the length unit: the
\* centre, inside the 0.0001 clamp, at it, and out to the impulse radius.
ProbeCoords == {-10, 0, 3, 10, 100, 12000, 16000, 20000}
ProbeHeights == {0, 4, 12000}

InitImpulse ==
  /\ InitBursts
  /\ InitFlag
  /\ \E x \in ProbeCoords, y \in ProbeCoords, z \in ProbeHeights :
       probe = [at |-> <<x, y, z>>, added |-> <<>>]

\* The impulse block of spawnBurst for an alive particle at probe.at.
ApplyProbe ==
  /\ probe.added = <<>>
  /\ probe' = [probe EXCEPT !.added = Impulse(probe.at[1], probe.at[2], probe.at[3], FINE)]
  /\ UNCHANGED <<burstVars, stroke, flagVars>>

NextImpulse == ApplyProbe

SpecImpulse == InitImpulse /\ [][NextImpulse]_vars

\* ------------------------------------------------------------ useDebouncedFlag
\* The stroke has two readers, ParticleBursts and useDebouncedFlag, whose
\* states are disjoint and do not read each other: the idle label's reader is
\* followed here on its own, against wall-clock time. useDebounce comes from
\* @toss/react; it is taken as a trailing debounce.
\* useDebounce(callback, debounceTime): a call (re)starts the wait.
RestartDebounce(timer) == debounceTime

\* Mutant of FlagEffect: the first run is not ignored.
FlagEffectOnFirstRun ==
  /\ flag' = TRUE
  /\ debounceTimer' = RestartDebounce(debounceTimer)
  /\ flagInitialRef' = FALSE

\* The effect on [ignoreInitial, trigger, debouncedFlagChange].
FlagEffect ==
  IF ignoreInitial /\ flagInitialRef
  THEN /\ flagInitialRef' = FALSE
       /\ UNCHANGED <<flag, debounceTimer>>
  ELSE /\ flag' = TRUE
       /\ debounceTimer' = RestartDebounce(debounceTimer)
       /\ UNCHANGED flagInitialRef

\* SmashParticles mounts: the effect runs for the initial stroke.
FlagMount ==
  /\ flagInitialRef
  /\ FlagEffect
  /\ UNCHANGED <<burstVars, stroke, sinceTrigger, probe>>

\* A keydown after the mount: a new stroke object, so the effect runs again.
FlagKeyDown(key) ==
  /\ ~flagInitialRef
  /\ stroke' = [stroke |-> key]
  /\ FlagEffect
  /\ sinceTrigger' = 0
  /\ UNCHANGED <<burstVars, probe>>

\* ms of wall-clock time pass.
Tick(ms) ==
  /\ ~flagInitialRef
  /\ debounceTimer' = IF debounceTimer < 0 THEN debounceTimer ELSE Max(0, debounceTimer - ms)
  /\ sinceTrigger' = IF sinceTrigger < 0 THEN sinceTrigger ELSE Min(SinceMax, sinceTrigger + ms)
  /\ sinceTrigger < SinceMax
  /\ UNCHANGED <<burstVars, stroke, flag, flagInitialRef, probe>>

\* The debounced callback runs once its wait is over: setFlag(false).
DebounceFires ==
  /\ debounceTimer = 0
  /\ flag' = FALSE
  /\ debounceTimer' = -1
  /\ UNCHANGED <<burstVars, stroke, flagInitialRef, sinceTrigger, probe>>

NextFlag ==
  \/ FlagMount
  \/ \E key \in Keys : FlagKeyDown(key)
  \/ \E ms \in TickVals : Tick(ms)
  \/ DebounceFires

SpecFlag == Init /\ [][NextFlag]_vars

\* ------------------------------------------------------------ properties
AliveSlots == {i \in Idx : ages[i] < lifetimes[i]}
DeadSlots == {i \in Idx : ages[i] >= lifetimes[i]}
\* A step that is a non-ignored spawn pass, a frame callback.
SpawnStep == bursts' = bursts + 1
FrameStep == ~rendering /\ rendering'
\* The slots a spawn step reinitialised: dead before it, alive after it.
Reinitialised == {i \in Idx : ages[i] >= lifetimes[i] /\ ages'[i] < lifetimes'[i]}
SlotUnchanged(i) ==
  /\ positions'[i] = positions[i]
  /\ velocities'[i] = velocities[i]
  /\ ages'[i] = ages[i]
  /\ lifetimes'[i] = lifetimes[i]
  /\ sizes'[i] = sizes[i]
  /\ alphas'[i] = alphas[i]
Norm2(v) == v[1] * v[1] + v[2] * v[2] + v[3] * v[3]

\* C1: in every reachable state, every slot with age >= lifetime has alpha 0,
\* size 0 and its position at the sentinel (1e6, 1e6, 1e6).
C1_DeadSlotsInert ==
  \A i \in Idx :
    ages[i] >= lifetimes[i] =>
      alphas[i] = 0 /\ sizes[i] = 0 /\ positions[i] = SentinelPos
\* A slot that was spawned and has died, beside one that is still alive.
C1_Witness ==
  /\ \E i \in DeadSlots : lifetimes[i] > 0
  /\ AliveSlots # {}

\* C2: a non-ignored spawn pass on a pool whose slots are all dead makes
\* exactly BURST_PARTICLE_COUNT slots alive, each with age 0, |x| <= 0.01,
\* |y| <= 0.01 and z = 0; the other slots stay dead.
C2_BurstOnDeadPool ==
  [][ (SpawnStep /\ DeadSlots = Idx) =>
        /\ Cardinality({i \in Idx : ages'[i] < lifetimes'[i]}) = BURST_PARTICLE_COUNT
        /\ \A i \in Idx :
             ages'[i] < lifetimes'[i] =>
               /\ ages'[i] = 0
               /\ Abs(positions'[i][1]) <= JITTER \div 2
               /\ Abs(positions'[i][2]) <= JITTER \div 2
               /\ positions'[i][3] = 0 ]_vars
\* The state one pass leaves of an all-dead pool: the burst at age 0, one
\* particle on the edge of the jitter square, the rest dead.
C2_Witness ==
  /\ bursts = 1
  /\ Cardinality(AliveSlots) = BURST_PARTICLE_COUNT
  /\ \A i \in AliveSlots : ages[i] = 0
  /\ \E i \in AliveSlots : positions[i][1] = JITTER \div 2
  /\ DeadSlots # {}

\* C3: a spawn call whose trigger key is a modifier changes no particle
\* attribute or velocity, does not raise the shake magnitude and marks no
\* buffer dirty.
C3_ModifierIsNoOp ==
  [][ (~isInitialRef /\ ~rendering /\ ~rendering' /\ stroke'.stroke \in ModifierKeys) =>
        UNCHANGED <<poolVars, needsUpdate, shakeMagnitude>> ]_vars
\* Shift was the last key, pressed on a mounted component with particles in
\* flight and clean buffers.
C3_Witness ==
  /\ ~isInitialRef
  /\ ~rendering
  /\ stroke.stroke = "Shift"
  /\ AliveSlots # {}
  /\ needsUpdate = NoneDirty

\* C4: a frame whose delta is strictly greater than an alive particle's
\* remaining lifetime leaves it at the sentinel with alpha 0 and size 0, and
\* a frame leaves every attribute of a slot that is already dead unchanged.
C4_RetireIsFinal ==
  [][ FrameStep =>
        \A i \in Idx :
          /\ (ages[i] < lifetimes[i] /\ delta' > lifetimes[i] - ages[i]) =>
               positions'[i] = SentinelPos /\ alphas'[i] = 0 /\ sizes'[i] = 0
          /\ ages[i] >= lifetimes[i] => SlotUnchanged(i) ]_vars
\* In the frame being rendered a particle overshot its lifetime, beside a
\* slot that had died in an earlier frame.
C4_Witness ==
  /\ rendering
  /\ \E i \in Idx :
       /\ lifetimes[i] > 0
       /\ ages[i] > lifetimes[i]
       /\ ages[i] - delta < lifetimes[i]
       /\ positions[i] = SentinelPos
  /\ \E j \in Idx : lifetimes[j] > 0 /\ ages[j] >= lifetimes[j] /\ ages[j] - delta >= lifetimes[j]

\* C5: with no further spawn pass, once the frame time accumulated since a
\* burst reaches (shake magnitude after the burst) / SHAKE_DECAY_PER_SEC the
\* shake magnitude is 0 and the camera is at the captured base position.
C5_ShakeEnds ==
  (burstShake > 0 /\ sinceBurst * SHAKE_DECAY_PER_SEC >= burstShake) =>
    shakeMagnitude = 0 /\ cameraPosition = baseCamPos
\* The frame being rendered is the one in which the accumulated time reached
\* the bound, after an earlier frame that left the camera shaken.
C5_Witness ==
  /\ rendering
  /\ burstShake > 0
  /\ sinceBurst * SHAKE_DECAY_PER_SEC >= burstShake
  /\ sinceBurst - delta > 0
  /\ (sinceBurst - delta) * SHAKE_DECAY_PER_SEC < burstShake

\* C6: every non-ignored spawn pass sets the shake magnitude to
\* max(previous magnitude, 0.12): at least 0.12 and not lower than before.
C6_BurstRaisesShake ==
  [][ SpawnStep =>
        /\ shakeMagnitude' = (IF shakeMagnitude >= SHAKE_ON_BURST THEN shakeMagnitude
                              ELSE SHAKE_ON_BURST)
        /\ shakeMagnitude' >= SHAKE_ON_BURST
        /\ shakeMagnitude' >= shakeMagnitude ]_vars
\* A burst arrived while the camera was still shaken by the one before.
C6_Witness ==
  /\ bursts > 0
  /\ shakeMagnitude >= SHAKE_ON_BURST
  /\ baseCamPos # <<>>
  /\ cameraPosition # baseCamPos

\* C9: a non-ignored spawn pass turns exactly min(BURST_PARTICLE_COUNT,
\* number of dead slots) slots from dead to alive, and they are the
\* lowest-indexed dead slots.
C9_ReusesLowestDead ==
  [][ SpawnStep =>
        /\ Cardinality(Reinitialised) = Min(BURST_PARTICLE_COUNT, Cardinality(DeadSlots))
        /\ \A i \in Reinitialised : \A j \in DeadSlots \ Reinitialised : i < j ]_vars
\* One pass found fewer dead slots than its budget and filled the pool.
C9_Witness ==
  /\ bursts = 1
  /\ AliveSlots = Idx
  /\ \E i \in Idx : ages[i] > 0
  /\ Cardinality({i \in Idx : ages[i] = 0}) < BURST_PARTICLE_COUNT
  /\ \E i \in Idx : ages[i] = 0

\* C10 as stated: when a spawn pass returns, the velocity magnitude of every
\* slot it reinitialised lies in [SPEED_MIN, SPEED_MAX].
C10_SpeedInRange ==
  [][ SpawnStep =>
        \A i \in Reinitialised :
          /\ Norm2(velocities'[i]) >= SPEED_MIN * SPEED_MIN
          /\ Norm2(velocities'[i]) <= SPEED_MAX * SPEED_MAX ]_vars
\* C10 as amended: when a spawn pass returns, the velocity of every slot it
\* reinitialised is a velocity of magnitude in [SPEED_MIN, SPEED_MAX] plus
\* the impulse the same pass added for the slot's spawn position.
C10_SpeedPlusImpulse ==
  [][ SpawnStep =>
        \A i \in Reinitialised :
          LET pos == positions'[i]
              add == Impulse(pos[1], pos[2], pos[3], 1)
              v == velocities'[i]
              w == <<v[1] - add[1], v[2] - add[2], v[3] - add[3]>>
          IN /\ Norm2(w) >= SPEED_MIN * SPEED_MIN
             /\ Norm2(w) <= SPEED_MAX * SPEED_MAX ]_vars
\* A particle fresh from a pass that is faster than SPEED_MAX.
C10_Witness ==
  /\ bursts = 1
  /\ \E i \in AliveSlots :
       ages[i] = 0 /\ Norm2(velocities[i]) > SPEED_MAX * SPEED_MAX

\* C7 as stated: an alive particle at distance exactly IMPULSE_RADIUS gets no
\* additional velocity, and one whose distance from the origin is within 1%
\* of the radius gets an addition of magnitude at least 98% of
\* IMPULSE_STRENGTH (the magnitude approaches IMPULSE_STRENGTH as the distance
\* tends to 0).
C7_ImpulseProfile ==
  LET radius == IMPULSE_RADIUS * FINE
      near == (IMPULSE_RADIUS * FINE) \div 100
      almost == (IMPULSE_STRENGTH * 98) \div 100
  IN probe.added # <<>> =>
       /\ (Norm2(probe.at) = radius * radius) => probe.added = <<0, 0, 0>>
       /\ (Norm2(probe.at) <= near * near) => Norm2(probe.added) >= almost * almost
\* C7, the part at the radius: at distance IMPULSE_RADIUS or more nothing is
\* added.
C7_ZeroAtRadius ==
  (probe.added # <<>> /\
   Norm2(probe.at) >= (IMPULSE_RADIUS * FINE) * (IMPULSE_RADIUS * FINE)) =>
    probe.added = <<0, 0, 0>>
\* C7, the part near the centre but outside the clamp: from distance 0.0001
\* to 1% of the radius the addition is at least 98% of IMPULSE_STRENGTH.
C7_StrongOutsideClamp ==
  LET near == (IMPULSE_RADIUS * FINE) \div 100
      almost == (IMPULSE_STRENGTH * 98) \div 100
  IN (probe.added # <<>> /\ Norm2(probe.at) >= DIST_CLAMP * DIST_CLAMP /\
      Norm2(probe.at) <= near * near) =>
       Norm2(probe.added) >= almost * almost
\* The impulse at the centre itself: nothing is added.
C7_Witness ==
  /\ probe.at = <<0, 0, 0>>
  /\ probe.added = <<0, 0, 0>>

\* C8: the flag is false from the mount until the first keydown; from a
\* keydown on it is true for as long as less than debounceTime (2000 ms) has
\* passed since the most recent keydown.
C8_IdleFlag ==
  /\ sinceTrigger = -1 => ~flag
  /\ (sinceTrigger >= 0 /\ sinceTrigger < debounceTime) => flag
\* The flag has fallen back to false after a keydown, with a later keydown
\* having restarted the wait (the key is not the first one pressed).
C8_Witness ==
  /\ ~flag
  /\ sinceTrigger >= debounceTime
  /\ debounceTimer = -1

\* C11: a non-ignored spawn pass leaves the age, lifetime, position, size and
\* alpha of every slot that is alive when it starts unchanged, and changes the
\* slot's velocity only if its squared distance from the origin is strictly
\* less than IMPULSE_RADIUS squared.
C11_AliveNotOverwritten ==
  [][ SpawnStep =>
        \A i \in AliveSlots :
          /\ ages'[i] = ages[i]
          /\ lifetimes'[i] = lifetimes[i]
          /\ positions'[i] = positions[i]
          /\ sizes'[i] = sizes[i]
          /\ alphas'[i] = alphas[i]
          /\ velocities'[i] # velocities[i] =>
               Norm2(positions[i]) < IMPULSE_RADIUS * IMPULSE_RADIUS ]_vars
\* After two passes without a frame between them: a particle in flight since
\* an earlier frame, and one from the first pass that the second pass pushed
\* again (more than SPEED_MAX + IMPULSE_STRENGTH).
C11_Witness ==
  /\ bursts = 2
  /\ \E i \in AliveSlots : ages[i] > 0
  /\ \E j \in AliveSlots :
       /\ ages[j] = 0
       /\ Norm2(velocities[j]) >
            (SPEED_MAX + IMPULSE_STRENGTH) * (SPEED_MAX + IMPULSE_STRENGTH)

\* C12: the first run of the trigger effect changes no particle, dirty flag
\* or shake magnitude and is no spawn pass, whatever the stroke is at that
\* time; every later keydown of a key that is not a modifier is exactly one
\* spawn pass.
C12_FirstRunSkipped ==
  [][ /\ (isInitialRef /\ ~isInitialRef') =>
           /\ UNCHANGED <<poolVars, needsUpdate, shakeMagnitude>>
           /\ bursts' = bursts
      /\ (~isInitialRef /\ ~rendering /\ ~rendering' /\ vars' # vars /\
          stroke'.stroke \notin ModifierKeys) =>
           /\ bursts' = bursts + 1
           /\ \E draws \in [1 .. BURST_PARTICLE_COUNT -> RandomDraws \cup ShakeDraws] :
                <<positions', velocities', ages', lifetimes', sizes', alphas'>> =
                  LET p == SpawnScan(Pool, 0, draws)
                  IN <<p.positions, p.velocities, p.ages, p.lifetimes, p.sizes, p.alphas>> ]_vars
\* The effect has had its first run while the stroke was already an ordinary
\* key, and nothing was spawned.
C12_Witness ==
  /\ ~isInitialRef
  /\ stroke.stroke = "a"
  /\ bursts = 0
  /\ \A i \in Idx : lifetimes[i] = 0
  /\ shakeMagnitude = 0
  /\ baseCamPos = <<>>

C14_DirtyIffAlive ==
  [][ /\ FrameStep =>
           IF AliveSlots # {} THEN needsUpdate' = AllDirty
           ELSE needsUpdate' = needsUpdate
      /\ SpawnStep => needsUpdate' = AllDirty ]_vars
\* The frame being rendered found a pool whose particles had all died
\* before it, and set no flag.
C14_Witness ==
  /\ rendering
  /\ needsUpdate = NoneDirty
  /\ DeadSlots = Idx
  /\ \E i \in Idx : lifetimes[i] > 0

\* C15: an attribute whose needsUpdate flag is clear has the same contents in
\* the render surface's copy as in the array: no write is left without its
\* flag, so after every draw (which uploads the flagged attributes and clears
\* the flags) the copies of position, aSize and aAlpha equal the arrays.
C15_UploadsCurrent ==
  /\ ~needsUpdate.position => uploaded.position = positions
  /\ ~needsUpdate.aSize => uploaded.aSize = sizes
  /\ ~needsUpdate.aAlpha => uploaded.aAlpha = alphas
\* A draw has ended the frame in which the last particles died: the copies
\* hold the sentinel, size 0 and alpha 0 written in that frame.
C15_Witness ==
  /\ ~rendering
  /\ needsUpdate = NoneDirty
  /\ baseCamPos # <<>>
  /\ DeadSlots = Idx
  /\ \E i \in Idx : lifetimes[i] > 0
  /\ bursts = 0
  /\ uploaded = [position |-> positions, aSize |-> sizes, aAlpha |-> alphas]

\* C16: in every reachable state the shake magnitude lies in [0, 0.12], and
\* once the base position is captured each camera coordinate is within 0.12
\* (x), 0.096 (y) and 0.036 (z) of it.
C16_ShakeBounded ==
  /\ shakeMagnitude >= 0
  /\ shakeMagnitude <= SHAKE_ON_BURST
  /\ baseCamPos # <<>> =>
       /\ Abs(cameraPosition[1] - baseCamPos[1]) <= SHAKE_ON_BURST
       /\ Abs(cameraPosition[2] - baseCamPos[2]) <= (SHAKE_ON_BURST * 8) \div 10
       /\ Abs(cameraPosition[3] - baseCamPos[3]) <= (SHAKE_ON_BURST * 3) \div 10
\* Two bursts in a row on a camera that the frame before had moved by the
\* full 0.12 on x: the magnitude is 0.12, not more.
C16_Witness ==
  /\ bursts = 2
  /\ shakeMagnitude = SHAKE_ON_BURST
  /\ baseCamPos # <<>>
  /\ cameraPosition[1] = baseCamPos[1] - SHAKE_ON_BURST

\* Every slot is dead, the shake is over and the camera is at its base.
Quiescent ==
  /\ DeadSlots = Idx
  /\ shakeMagnitude = 0
  /\ baseCamPos # <<>>
  /\ cameraPosition = baseCamPos

\* C17: with the render loop running, either non-ignored spawn passes keep
\* arriving for ever or the system reaches the quiescent state and stays in
\* it; and a frame in the quiescent state writes no particle attribute, sets
\* no needsUpdate flag and does not move the camera.
C17_Quiesces ==
  /\ ([]<><<SpawnStep>>_vars) \/ (<>[]Quiescent)
  /\ [][ (Quiescent /\ FrameStep) =>
           UNCHANGED <<poolVars, needsUpdate, cameraVars>> ]_vars
\* At rest after a burst: its particles have died, its shake has decayed, the
\* last frame has been drawn.
C17_Witness ==
  /\ Quiescent
  /\ burstShake > 0
  /\ sinceBurst * SHAKE_DECAY_PER_SEC >= burstShake
  /\ \E i \in Idx : lifetimes[i] > 0
  /\ ~rendering

====
